---- MODULE Spec2Model ----
(***************************************************************************)
(* Transport and controller layer of python-magichue (magichue/light.py):  *)
(* AbstractLight, RemoteLight and LocalLight.                              *)
(*                                                                         *)
(* One light object is modelled.  `kind` says which transport it is.  The  *)
(* caller runs one controller operation at a time (Call ... Return); the   *)
(* device, the TCP peer and the relay are the environment and interleave   *)
(* with the steps of an operation.                                         *)
(***************************************************************************)
EXTENDS Integers, Sequences, FiniteSets, TLC

VARIABLES
    kind,        \* "Local" (LocalLight) or "Remote" (RemoteLight)
    sockClosed,  \* self._sock._closed
    peer,        \* state of the TCP connection behind self._sock
    rxbuf,       \* bytes received by the socket and not yet read
    inflight,    \* rest of a reply frame the device has not delivered yet
    pending,     \* commands written to the socket, not yet handled by the device
    pushes,      \* number of unsolicited bytes the device has pushed so far
    status,      \* self.status, the cached Status
    pc,          \* position of the caller inside the current operation
    op,          \* the controller operation in progress
    log,         \* socket / relay calls made by the current operation, in order
    result,      \* how the current operation ended: "ok" or the exception raised
    ret,         \* value returned by the current operation
    cmdData,     \* what _send_command returned to the current operation
    readData,    \* what sock.recv yielded to the reply read of the current operation
    parsed,      \* arguments handed to Status.parse by the current operation
    statusAtCall,\* self.status when the current operation was called
    lastOn,      \* flag value set by the last operation that completed without error
    lostConn,    \* an operation the caller has seen fail lost the connection
    clkData,     \* clock decode check: the reply handed to the decoder
    clkOut,      \* clock decode check: what the decoder produced
    rpIn,        \* reply handling check: a query and the reply bytes to it
    rpOut        \* reply handling check: what each transport made of them

vars == <<kind, sockClosed, peer, rxbuf, inflight, pending, pushes, status, pc,
          op, log, result, ret, cmdData, readData, parsed, statusAtCall, lastOn,
          lostConn, clkData, clkOut, rpIn, rpOut>>

-----------------------------------------------------------------------------
(* Bounds of the model *)

\* unsolicited bytes the device may push in one behaviour
MaxPush == 2

\* bytes of a reply frame that may arrive ahead of the rest of it
SplitAt == 4

\* commands the socket's send buffer holds before a write times out
MaxPending == 1

\* bytes the socket's receive buffer holds
MaxBuf == 16

-----------------------------------------------------------------------------
(* Sequences of bytes.  Python indexes from 0. *)

Min(a, b) == IF a < b THEN a ELSE b

Take(s, n) == SubSeq(s, 1, Min(n, Len(s)))

Drop(s, n) == SubSeq(s, Min(n, Len(s)) + 1, Len(s))

At(data, i) == data[i + 1]

-----------------------------------------------------------------------------
(* Commands (magichue/commands.py) and the Status model (magichue/magichue.py) *)

Ops == {"turn_on", "turn_off", "_update_status", "_apply_status", "get_current_time"}

\* Command.response_len of QueryStatus
QueryStatusLen == 14

\* Command.response_len of QueryCurrentTime
QueryCurrentTimeLen == 12

TurnON == [name |-> "TurnON", response_len |-> 0, array |-> <<>>]

TurnOFF == [name |-> "TurnOFF", response_len |-> 0, array |-> <<>>]

QueryStatus == [name |-> "QueryStatus", response_len |-> QueryStatusLen, array |-> <<>>]

QueryCurrentTime ==
    [name |-> "QueryCurrentTime", response_len |-> QueryCurrentTimeLen, array |-> <<>>]

\* Command.from_array(data): a fire-and-forget command carrying data
from_array(data) == [name |-> "ApplyStatus", response_len |-> 0, array |-> data]

\* Status(): the cached state a new controller starts with
NewStatus == [on |-> FALSE, r |-> 0, g |-> 0, b |-> 0, w |-> 0]

\* Status.make_data(): the Status serialised for an apply command
make_data(st) == <<st.r, st.g, st.b, st.w>>

\* a status reply frame as the device builds it
StatusFrame(on, r, g, b, w) ==
    <<129, 51, IF on THEN 35 ELSE 36, 97, 1, 1, r, g, b, w, 1, 0, 240, 0>>

\* Status.parse(data): the Status decoded from a status reply frame; a frame of
\* another length is refused and the Status is left alone
StatusParse(st, data) ==
    IF Len(data) # QueryStatusLen
    THEN [exc |-> "InvalidData", st |-> st]
    ELSE [exc |-> "ok",
          st  |-> [on |-> (At(data, 2) = 35), r |-> At(data, 6), g |-> At(data, 7),
                   b |-> At(data, 8), w |-> At(data, 9)]]

\* a clock reply frame as the device builds it
ClockFrame(y, mo, d, h, mi, s) == <<15, 17, 20, y, mo, d, h, mi, s, 1, 0, 0>>

-----------------------------------------------------------------------------
(* datetime(year, month, day, hour, minute, second) of the standard library *)

IsLeap(y) == (y % 4 = 0) /\ ((y % 100 # 0) \/ (y % 400 = 0))

DaysInMonth(y, mo) ==
    IF mo = 2 THEN (IF IsLeap(y) THEN 29 ELSE 28)
    ELSE IF mo \in {4, 6, 9, 11} THEN 30 ELSE 31

ValidDateTime(y, mo, d, h, mi, s) ==
    /\ y \in 1..9999
    /\ mo \in 1..12
    /\ d \in 1..DaysInMonth(y, mo)
    /\ h \in 0..23
    /\ mi \in 0..59
    /\ s \in 0..59

datetime(y, mo, d, h, mi, s) ==
    IF ValidDateTime(y, mo, d, h, mi, s)
    THEN [exc |-> "ok", val |-> <<y, mo, d, h, mi, s>>]
    ELSE [exc |-> "ValueError", val |-> <<>>]

-----------------------------------------------------------------------------
(* AbstractLight *)

\* the command each controller operation hands to _send_command
CmdOf(o, st) ==
    CASE o = "turn_on"          -> TurnON
      [] o = "turn_off"         -> TurnOFF
      [] o = "_update_status"   -> QueryStatus
      [] o = "get_current_time" -> QueryCurrentTime
      [] o = "_apply_status"    -> from_array(make_data(st))

\* the send_only argument each controller operation passes to _send_command
SendOnly(o) == o \in {"turn_on", "turn_off", "_apply_status"}

\* ClockDecode reading every field one byte too early
ClockDecodeShifted(data) ==
    IF Len(data) < 9
    THEN [exc |-> "IndexError", val |-> <<>>]
    ELSE datetime(At(data, 2) + 2000, At(data, 3), At(data, 4),
                  At(data, 5), At(data, 6), At(data, 7))

\* get_current_time, after _send_command has returned data
ClockDecode(data) ==
    IF Len(data) < 9
    THEN [exc |-> "IndexError", val |-> <<>>]
    ELSE datetime(At(data, 3) + 2000, At(data, 4), At(data, 5),
                  At(data, 6), At(data, 7), At(data, 8))

\* StatusAfterCommand with the flag set before _send_command is called
StatusSetBeforeSend(o, st, exc) ==
    IF o = "turn_on" THEN [st EXCEPT !.on = TRUE]
    ELSE IF o = "turn_off" THEN [st EXCEPT !.on = FALSE]
    ELSE st

\* StatusAfterCommand with turn_off setting the flag as turn_on does
StatusTurnOffSetsOn(o, st, exc) ==
    IF exc # "ok" THEN st
    ELSE IF o \in {"turn_on", "turn_off"} THEN [st EXCEPT !.on = TRUE]
    ELSE st

\* lines 87 and 91: the optimistic update that follows _send_command
StatusAfterCommand(o, st, exc) ==
    IF exc # "ok" THEN st
    ELSE IF o = "turn_on" THEN [st EXCEPT !.on = TRUE]
    ELSE IF o = "turn_off" THEN [st EXCEPT !.on = FALSE]
    ELSE st

\* CheckLen accepting a reply shorter than declared
CheckLenAtMost(cmd, data) ==
    IF Len(data) <= cmd.response_len
    THEN [exc |-> "ok", val |-> data]
    ELSE [exc |-> "InvalidData", val |-> data]

\* the length check that ends a query's _send_command
CheckLen(cmd, data) ==
    IF Len(data) = cmd.response_len
    THEN [exc |-> "ok", val |-> data]
    ELSE [exc |-> "InvalidData", val |-> data]

-----------------------------------------------------------------------------
(* The TCP socket behind LocalLight._sock *)

\* value of the byte the device pushes unrequested
PushByte == 170

\* the length _flush_receive_buffer asks _receive for
FlushChunk == 255

\* select.select([sock], [], [], timeout) reports the socket readable:
\* data is buffered, or the peer has closed or reset the connection
Readable(buf, p) == buf # <<>> \/ p # "up"

\* the outcomes of sock.recv(n)
SockRecv(n, buf, p) ==
    IF p = "reset" THEN {[exc |-> "ConnectionResetError", data |-> <<>>, rest |-> buf]}
    ELSE IF p = "unconnected" THEN {[exc |-> "OSError", data |-> <<>>, rest |-> buf]}
    ELSE IF buf # <<>> THEN {[exc |-> "ok", data |-> Take(buf, n), rest |-> Drop(buf, n)]}
    ELSE IF p = "closed" THEN {[exc |-> "ok", data |-> <<>>, rest |-> buf]}
    ELSE {[exc |-> "timeout", data |-> <<>>, rest |-> buf]}

\* the outcomes of sock.send(data)
SockSend(p, pend) ==
    IF p = "reset" THEN {"ConnectionResetError"}
    ELSE IF p = "unconnected" THEN {"OSError"}
    ELSE IF Len(pend) >= MaxPending THEN {"timeout"}
    ELSE {"ok"}

-----------------------------------------------------------------------------
(* LocalLight *)

\* SendClosedCheck with the check of self._sock._closed lost
SendUnchecked(closed) == "ok"

\* _send: the check made before sock.send
SendClosedCheck(closed) == IF closed THEN "DeviceDisconnected" ELSE "ok"

\* _receive: the check made before sock.recv
ReceiveClosedCheck(closed) == IF closed THEN "DeviceDisconnected" ELSE "ok"

\* _flush_receive_buffer: the check made before the polling loop
FlushClosedCheck(closed) == IF closed THEN "DeviceDisconnected" ELSE "ok"

\* FirstStep with the send_only branch lost: every command is handled as a query
FirstStepAlwaysQuery(k, sendOnly) ==
    IF k = "Local" THEN "flush" ELSE "api_request"

\* _send_command: where the call goes first, by transport and send_only
FirstStep(k, sendOnly) ==
    IF k = "Local"
    THEN (IF sendOnly THEN "send" ELSE "flush")
    ELSE (IF sendOnly THEN "api_send" ELSE "api_request")

\* AfterSelect with the loop lost: one poll, then the write, whatever it found
AfterSelectOnce(readable) == "send"

\* AfterSelect leaving the loop when the socket is readable
AfterSelectInverted(readable) == IF readable THEN "send" ELSE "flush_recv"

\* _flush_receive_buffer: leave the loop when the poll found nothing readable
AfterSelect(readable) == IF readable THEN "flush_recv" ELSE "send"

\* AfterFlushRecv with the test of the empty read lost
AfterFlushRecvNoEof(r) == r.exc

\* AfterFlushRecv taking the empty read for a malformed reply
AfterFlushRecvEofInvalid(r) ==
    IF r.exc # "ok" THEN r.exc
    ELSE IF r.data = <<>> THEN "InvalidData"
    ELSE "ok"

\* _flush_receive_buffer: what follows the _receive(255) of one iteration
AfterFlushRecv(r) ==
    IF r.exc # "ok" THEN r.exc
    ELSE IF r.data = <<>> THEN "DeviceDisconnected"
    ELSE "ok"

-----------------------------------------------------------------------------
(* The tail of the query operations, after _send_command has returned *)

\* StatusAfterQuery trusting the power byte of a reply of the wrong length
StatusPartlyTrusted(o, st, out) ==
    IF o = "_update_status" /\ out.exc = "ok" THEN StatusParse(st, out.val).st
    ELSE IF o = "_update_status" /\ Len(out.val) > 2
    THEN [st EXCEPT !.on = (At(out.val, 2) = 35)]
    ELSE st

\* StatusAfterQuery with the clock query also writing the power byte it read
StatusParsedByAnyQuery(o, st, out) ==
    IF o = "_update_status" /\ out.exc = "ok" THEN StatusParse(st, out.val).st
    ELSE IF out.exc = "ok" THEN [st EXCEPT !.on = (At(out.val, 2) = 35)]
    ELSE st

\* self.status after a query operation whose _send_command ended as out
StatusAfterQuery(o, st, out) ==
    IF o = "_update_status" /\ out.exc = "ok" THEN StatusParse(st, out.val).st ELSE st

\* the arguments Status.parse was called with by that operation
ParsedByQuery(o, out) ==
    IF o = "_update_status" /\ out.exc = "ok" THEN <<out.val>> ELSE <<>>

\* how the query operation ends: its exception, or its return value
QueryOutcome(o, out) ==
    IF out.exc # "ok" THEN [exc |-> out.exc, ret |-> [tag |-> "None", val |-> <<>>]]
    ELSE IF o = "get_current_time"
    THEN LET t == ClockDecode(out.val)
         IN  [exc |-> t.exc,
              ret |-> IF t.exc = "ok" THEN [tag |-> "datetime", val |-> t.val]
                      ELSE [tag |-> "None", val |-> <<>>]]
    ELSE [exc |-> StatusParse(NewStatus, out.val).exc,
          ret |-> [tag |-> "None", val |-> <<>>]]

-----------------------------------------------------------------------------
(* RemoteLight *)

HexDigits == <<"0", "1", "2", "3", "4", "5", "6", "7",
               "8", "9", "a", "b", "c", "d", "e", "f">>

\* int(c, 16) of one hexadecimal digit
HexVal(c) == (CHOOSE i \in 1..16 : HexDigits[i] = c) - 1

\* the two hexadecimal digits the relay writes for one byte
HexOfByte(b) == <<HexDigits[(b \div 16) + 1], HexDigits[(b % 16) + 1]>>

RECURSIVE HexEncode(_)
\* the relay's hexadecimal encoding of a sequence of bytes
HexEncode(bytes) ==
    IF bytes = <<>> THEN <<>> ELSE HexOfByte(Head(bytes)) \o HexEncode(Tail(bytes))

\* str2hexarray reading one hexadecimal digit at a time
str2hexarrayNibbles(hexstr) == [i \in 1..Len(hexstr) |-> HexVal(hexstr[i])]

RECURSIVE str2hexarray(_)
\* RemoteLight.str2hexarray: int(hexstr[i:i+2], 16) for i in range(0, len(hexstr), 2)
str2hexarray(hexstr) ==
    IF hexstr = <<>> THEN <<>>
    ELSE IF Len(hexstr) = 1 THEN <<HexVal(hexstr[1])>>
    ELSE <<16 * HexVal(hexstr[1]) + HexVal(hexstr[2])>>
             \o str2hexarray(SubSeq(hexstr, 3, Len(hexstr)))

\* RemoteQuery with the comparison of len(data) to cmd.response_len lost
RemoteQueryUnchecked(cmd, reply) ==
    IF reply.tag = "None" THEN [exc |-> "TypeError", val |-> <<>>]
    ELSE [exc |-> "ok", val |-> str2hexarray(reply.s)]

\* RemoteLight._send_command, send_only=False, given what api._send_request returned
RemoteQuery(cmd, reply) ==
    IF reply.tag = "None" THEN [exc |-> "TypeError", val |-> <<>>]
    ELSE CheckLen(cmd, str2hexarray(reply.s))

-----------------------------------------------------------------------------
(* The device, the relay and the caller's environment *)

\* the reply frames the device may answer a query with
Frames(cmd) ==
    IF cmd.name = "QueryStatus"
    THEN {StatusFrame(TRUE, 255, 0, 128, 64), StatusFrame(FALSE, 0, 0, 0, 0)}
    ELSE IF cmd.name = "QueryCurrentTime"
    THEN {ClockFrame(25, 6, 15, 13, 30, 0), ClockFrame(25, 13, 15, 13, 30, 0)}
    ELSE {}

\* what api._send_request may hand back for a query
RelayReplies(cmd) ==
    {[tag |-> "str", s |-> HexEncode(f)] : f \in Frames(cmd)}
      \cup {[tag |-> "str", s |-> HexEncode(Take(f, SplitAt))] : f \in Frames(cmd)}
      \cup {[tag |-> "str", s |-> HexEncode(f \o <<PushByte>>)] : f \in Frames(cmd)}
      \cup {[tag |-> "str", s |-> <<>>], [tag |-> "None", s |-> <<>>]}

RetNone == [tag |-> "None", val |-> <<>>]

\* no reply is being handled
NoReply == [cmd |-> TurnON, tag |-> "none", bytes |-> <<>>]

NoReplyOut ==
    [done |-> FALSE, local |-> [exc |-> "none", val |-> <<>>],
     remote |-> [exc |-> "none", val |-> <<>>], decoded |-> <<>>]

-----------------------------------------------------------------------------
(* Initial state: a light right after construction *)

Init ==
    /\ kind \in {"Local", "Remote"}
    /\ sockClosed = FALSE
    /\ peer = "up"
    /\ rxbuf = <<>>
    /\ inflight = <<>>
    /\ pending = <<>>
    /\ pushes = 0
    /\ status = NewStatus
    /\ pc = "idle"
    /\ op = "none"
    /\ log = <<>>
    /\ result = "none"
    /\ ret = RetNone
    /\ cmdData = RetNone
    /\ readData = RetNone
    /\ parsed = <<>>
    /\ statusAtCall = NewStatus
    /\ lastOn = FALSE
    /\ lostConn = FALSE
    /\ clkData = <<>>
    /\ clkOut = [exc |-> "none", ret |-> RetNone]
    /\ rpIn = NoReply
    /\ rpOut = NoReplyOut

-----------------------------------------------------------------------------
(* The caller: one controller operation at a time *)

\* the on flag set by the operation that just ended, when it ended without error
LastOnAfter(o, exc, data, cur) ==
    IF exc # "ok" THEN cur
    ELSE IF o = "turn_on" THEN TRUE
    ELSE IF o = "turn_off" THEN FALSE
    ELSE IF o = "_update_status" THEN (At(data, 2) = 35)
    ELSE cur

\* the caller starts operation o
Call(o) ==
    /\ pc = "idle"
    /\ op' = o
    /\ pc' = FirstStep(kind, SendOnly(o))
    /\ statusAtCall' = status
    /\ UNCHANGED <<kind, sockClosed, peer, rxbuf, inflight, pending, pushes, status,
                   log, result, ret, cmdData, readData, parsed, lastOn,
                   lostConn, clkData, clkOut, rpIn, rpOut>>

\* the operation that ended as exc, having made the socket calls lg, failed
\* because the connection was lost: the flush met the end of the stream, or the
\* connection was reset
ConnectionLost(k, closed, exc, lg) ==
    /\ k = "Local" /\ ~closed /\ lg # <<>>
    /\ exc \in {"DeviceDisconnected", "ConnectionResetError"}

\* the caller has seen the operation end
Return ==
    /\ pc = "done"
    /\ pc' = "idle"
    /\ op' = "none"
    /\ log' = <<>>
    /\ result' = "none"
    /\ ret' = RetNone
    /\ cmdData' = RetNone
    /\ readData' = RetNone
    /\ parsed' = <<>>
    /\ statusAtCall' = status
    /\ lostConn' = (lostConn \/ ConnectionLost(kind, sockClosed, result, log))
    /\ UNCHANGED <<kind, sockClosed, peer, rxbuf, inflight, pending, pushes, status,
                   lastOn, clkData, clkOut, rpIn, rpOut>>

\* turn_on, turn_off, _apply_status: the rest of the operation, _send_command
\* having ended as exc
FinishCommand(exc) ==
    /\ pc' = "done"
    /\ result' = exc
    /\ ret' = RetNone
    /\ status' = StatusAfterCommand(op, status, exc)
    /\ lastOn' = LastOnAfter(op, exc, <<>>, lastOn)
    /\ UNCHANGED <<cmdData, readData, parsed, lostConn>>

\* _update_status, get_current_time: the rest of the operation, _send_command
\* having ended as out
FinishQuery(out, rd) ==
    /\ pc' = "done"
    /\ readData' = rd
    /\ result' = QueryOutcome(op, out).exc
    /\ ret' = QueryOutcome(op, out).ret
    /\ cmdData' = IF out.exc = "ok" THEN [tag |-> "tuple", val |-> out.val] ELSE RetNone
    /\ status' = StatusAfterQuery(op, status, out)
    /\ parsed' = ParsedByQuery(op, out)
    /\ lastOn' = LastOnAfter(op, QueryOutcome(op, out).exc, out.val, lastOn)
    /\ UNCHANGED lostConn

\* the operation goes on to its next step
Goto(next) ==
    /\ pc' = next
    /\ UNCHANGED <<result, ret, status, cmdData, readData, parsed, lastOn, lostConn>>

Failed(exc) == [exc |-> exc, val |-> <<>>]

-----------------------------------------------------------------------------
(* LocalLight._send_command, step by step *)

\* _flush_receive_buffer is entered
FlushEnter ==
    /\ pc = "flush"
    /\ IF FlushClosedCheck(sockClosed) # "ok"
       THEN FinishQuery(Failed(FlushClosedCheck(sockClosed)), RetNone)
       ELSE Goto("select")
    /\ UNCHANGED <<kind, sockClosed, peer, rxbuf, inflight, pending, pushes,
                   op, log, statusAtCall, clkData, clkOut, rpIn, rpOut>>

\* one select.select poll of the flush loop
FlushSelect ==
    /\ pc = "select"
    /\ log' = Append(log, [t |-> "select", n |-> IF Readable(rxbuf, peer) THEN 1 ELSE 0])
    /\ Goto(AfterSelect(Readable(rxbuf, peer)))
    /\ UNCHANGED <<kind, sockClosed, peer, rxbuf, inflight, pending, pushes,
                   op, statusAtCall, clkData, clkOut, rpIn, rpOut>>

\* one _receive(255) of the flush loop
FlushRecv ==
    /\ pc = "flush_recv"
    /\ IF ReceiveClosedCheck(sockClosed) # "ok"
       THEN /\ FinishQuery(Failed(ReceiveClosedCheck(sockClosed)), RetNone)
            /\ UNCHANGED <<log, rxbuf>>
       ELSE /\ log' = Append(log, [t |-> "recv", n |-> FlushChunk])
            /\ \E r \in SockRecv(FlushChunk, rxbuf, peer) :
                 /\ rxbuf' = r.rest
                 /\ IF AfterFlushRecv(r) # "ok"
                    THEN FinishQuery(Failed(AfterFlushRecv(r)), RetNone)
                    ELSE Goto("select")
    /\ UNCHANGED <<kind, sockClosed, peer, inflight, pending, pushes,
                   op, statusAtCall, clkData, clkOut, rpIn, rpOut>>

\* AfterSend with a failed write tried again
AfterSendRetry(sendOnly, out) ==
    IF out # "ok" THEN "send" ELSE IF sendOnly THEN "done" ELSE "recv"

\* where _send_command goes once _send(cmd.byte_string()) has ended as out: an
\* exception ends it, a send_only command returns, a query goes on to _receive
AfterSend(sendOnly, out) ==
    IF out # "ok" \/ sendOnly THEN "done" ELSE "recv"

\* the outcomes of _send(data)
SendOutcomes ==
    IF SendClosedCheck(sockClosed) # "ok"
    THEN {SendClosedCheck(sockClosed)}
    ELSE SockSend(peer, pending)

\* _send(cmd.byte_string()); a fire-and-forget operation ends here
Send ==
    /\ pc = "send"
    /\ log' = IF SendClosedCheck(sockClosed) # "ok" THEN log
              ELSE Append(log, [t |-> "send", n |-> 0])
    /\ \E out \in SendOutcomes :
         /\ pending' = IF out = "ok" /\ peer = "up"
                       THEN Append(pending, CmdOf(op, status))
                       ELSE pending
         /\ IF AfterSend(SendOnly(op), out) # "done"
            THEN Goto(AfterSend(SendOnly(op), out))
            ELSE IF SendOnly(op) THEN FinishCommand(out)
            ELSE FinishQuery(Failed(out), RetNone)
    /\ UNCHANGED <<kind, sockClosed, peer, rxbuf, inflight, pushes,
                   op, statusAtCall, clkData, clkOut, rpIn, rpOut>>

\* data = _receive(cmd.response_len), the length check and the rest of the operation
Recv ==
    /\ pc = "recv"
    /\ IF ReceiveClosedCheck(sockClosed) # "ok"
       THEN /\ FinishQuery(Failed(ReceiveClosedCheck(sockClosed)), RetNone)
            /\ UNCHANGED <<log, rxbuf>>
       ELSE /\ log' = Append(log, [t |-> "recv", n |-> CmdOf(op, status).response_len])
            /\ \E r \in SockRecv(CmdOf(op, status).response_len, rxbuf, peer) :
                 /\ rxbuf' = r.rest
                 /\ IF r.exc # "ok"
                    THEN FinishQuery(Failed(r.exc), RetNone)
                    ELSE FinishQuery(CheckLen(CmdOf(op, status), r.data),
                                     [tag |-> "bytes", val |-> r.data])
    /\ UNCHANGED <<kind, sockClosed, peer, inflight, pending, pushes,
                   op, statusAtCall, clkData, clkOut, rpIn, rpOut>>

-----------------------------------------------------------------------------
(* RemoteLight._send_command *)

\* send_only: return self.api._send_command(cmd, self.macaddr)
ApiSend ==
    /\ pc = "api_send"
    /\ log' = Append(log, [t |-> "api_send", n |-> 0])
    /\ \E out \in {"ok", "APIError"} : FinishCommand(out)
    /\ UNCHANGED <<kind, sockClosed, peer, rxbuf, inflight, pending, pushes,
                   op, statusAtCall, clkData, clkOut, rpIn, rpOut>>

\* query: self.str2hexarray(self._send_request(cmd)) and the length check
ApiRequest ==
    /\ pc = "api_request"
    /\ log' = Append(log, [t |-> "api_request", n |-> 0])
    /\ \/ \E reply \in RelayReplies(CmdOf(op, status)) :
            FinishQuery(RemoteQuery(CmdOf(op, status), reply), RetNone)
       \/ FinishQuery(Failed("APIError"), RetNone)
    /\ UNCHANGED <<kind, sockClosed, peer, rxbuf, inflight, pending, pushes,
                   op, statusAtCall, clkData, clkOut, rpIn, rpOut>>

-----------------------------------------------------------------------------
(* The device and the network behind a LocalLight *)

\* the device takes the oldest command; it answers a query with a frame, of which
\* the first bytes may arrive ahead of the rest
DeviceHandle ==
    /\ kind = "Local" /\ ~sockClosed /\ peer = "up"
    /\ pending # <<>> /\ inflight = <<>>
    /\ pending' = Tail(pending)
    /\ IF Head(pending).response_len = 0
       THEN UNCHANGED <<rxbuf, inflight>>
       ELSE \E f \in Frames(Head(pending)) : \E k \in {SplitAt, Len(f)} :
              /\ Len(rxbuf) + Len(f) <= MaxBuf
              /\ rxbuf' = rxbuf \o Take(f, k)
              /\ inflight' = Drop(f, k)
    /\ UNCHANGED <<kind, sockClosed, peer, pushes, status, pc, op, log, result, ret,
                   cmdData, readData, parsed, statusAtCall, lastOn,
                   lostConn, clkData, clkOut, rpIn, rpOut>>

\* the rest of a reply frame arrives
DeviceDeliver ==
    /\ kind = "Local" /\ ~sockClosed /\ peer = "up"
    /\ inflight # <<>>
    /\ rxbuf' = rxbuf \o inflight
    /\ inflight' = <<>>
    /\ UNCHANGED <<kind, sockClosed, peer, pending, pushes, status, pc, op, log, result,
                   ret, cmdData, readData, parsed, statusAtCall, lastOn,
                   lostConn, clkData, clkOut, rpIn, rpOut>>

\* the device pushes a byte nobody asked for
DevicePush ==
    /\ kind = "Local" /\ ~sockClosed /\ peer = "up"
    /\ pushes < MaxPush
    /\ Len(rxbuf) + Len(inflight) < MaxBuf
    /\ pushes' = pushes + 1
    /\ rxbuf' = Append(rxbuf, PushByte)
    /\ UNCHANGED <<kind, sockClosed, peer, inflight, pending, status, pc, op, log, result,
                   ret, cmdData, readData, parsed, statusAtCall, lastOn,
                   lostConn, clkData, clkOut, rpIn, rpOut>>

\* the device closes the connection: what it sent stays readable, then end of file
PeerClose ==
    /\ kind = "Local" /\ ~sockClosed /\ peer = "up"
    /\ peer' = "closed"
    /\ inflight' = <<>>
    /\ pending' = <<>>
    /\ UNCHANGED <<kind, sockClosed, rxbuf, pushes, status, pc, op, log, result,
                   ret, cmdData, readData, parsed, statusAtCall, lastOn,
                   lostConn, clkData, clkOut, rpIn, rpOut>>

\* the connection is reset: buffered data is lost
PeerReset ==
    /\ kind = "Local" /\ ~sockClosed /\ peer \in {"up", "closed"}
    /\ peer' = "reset"
    /\ rxbuf' = <<>>
    /\ inflight' = <<>>
    /\ pending' = <<>>
    /\ UNCHANGED <<kind, sockClosed, pushes, status, pc, op, log, result,
                   ret, cmdData, readData, parsed, statusAtCall, lastOn,
                   lostConn, clkData, clkOut, rpIn, rpOut>>

-----------------------------------------------------------------------------
(* The caller closes the socket, or connects again, between operations *)

\* self._sock.close()
Close ==
    /\ kind = "Local" /\ pc = "idle" /\ ~sockClosed
    /\ sockClosed' = TRUE
    /\ peer' = "unconnected"
    /\ rxbuf' = <<>>
    /\ inflight' = <<>>
    /\ pending' = <<>>
    /\ UNCHANGED <<kind, pushes, status, pc, op, log, result,
                   ret, cmdData, readData, parsed, statusAtCall, lastOn,
                   lostConn, clkData, clkOut, rpIn, rpOut>>

\* self._connect(): a new socket replaces self._sock, then connect succeeds or raises
Connect ==
    /\ kind = "Local" /\ pc = "idle"
    /\ sockClosed' = FALSE
    /\ \E connected \in BOOLEAN : peer' = IF connected THEN "up" ELSE "unconnected"
    /\ rxbuf' = <<>>
    /\ inflight' = <<>>
    /\ pending' = <<>>
    /\ lostConn' = FALSE
    /\ UNCHANGED <<kind, pushes, status, pc, op, log, result,
                   ret, cmdData, readData, parsed, statusAtCall, lastOn,
                   clkData, clkOut, rpIn, rpOut>>

-----------------------------------------------------------------------------

Next ==
    \/ \E o \in Ops : Call(o)
    \/ Return
    \/ FlushEnter
    \/ FlushSelect
    \/ FlushRecv
    \/ Send
    \/ Recv
    \/ ApiSend
    \/ ApiRequest
    \/ DeviceHandle
    \/ DeviceDeliver
    \/ DevicePush
    \/ PeerClose
    \/ PeerReset
    \/ Close
    \/ Connect

Spec == Init /\ [][Next]_vars

-----------------------------------------------------------------------------
(* get_current_time as a function of the reply: every reply of the declared  *)
(* length built from the byte values below is decoded once.                  *)

YearBytes == {0, 24, 25, 100, 255}

MonthBytes == {0, 1, 2, 6, 12, 13, 255}

DayBytes == {0, 1, 15, 28, 29, 30, 31, 32}

HourBytes == {0, 13, 23, 24}

MinuteBytes == {0, 30, 59, 60}

SecondBytes == {0, 59, 60}

ClockInputs ==
    {ClockFrame(y, mo, d, h, mi, s) :
        y \in YearBytes, mo \in MonthBytes, d \in DayBytes,
        h \in HourBytes, mi \in MinuteBytes, s \in SecondBytes}

InitClock ==
    /\ kind = "Local"
    /\ sockClosed = FALSE
    /\ peer = "up"
    /\ rxbuf = <<>>
    /\ inflight = <<>>
    /\ pending = <<>>
    /\ pushes = 0
    /\ status = NewStatus
    /\ pc = "idle"
    /\ op = "none"
    /\ log = <<>>
    /\ result = "none"
    /\ ret = RetNone
    /\ cmdData = RetNone
    /\ readData = RetNone
    /\ parsed = <<>>
    /\ statusAtCall = NewStatus
    /\ lastOn = FALSE
    /\ lostConn = FALSE
    /\ clkData \in ClockInputs
    /\ clkOut = [exc |-> "none", ret |-> RetNone]
    /\ rpIn = NoReply
    /\ rpOut = NoReplyOut

\* get_current_time on a reply that _send_command has read
ClockApply ==
    /\ clkOut.exc = "none"
    /\ clkOut' = QueryOutcome("get_current_time", CheckLen(QueryCurrentTime, clkData))
    /\ UNCHANGED <<clkData, kind, sockClosed, peer, rxbuf, inflight, pending, pushes,
                   status, pc, op, log, result, ret, cmdData, readData, parsed,
                   statusAtCall, lastOn, lostConn, rpIn, rpOut>>

NextClock == ClockApply

SpecClock == InitClock /\ [][NextClock]_vars

-----------------------------------------------------------------------------
(* The light from its construction on: LocalLight.__init__ calls _connect    *)
(* before the object exists; RemoteLight.__init__ opens nothing.             *)

\* the outcomes of sock.connect((self.ipaddr, self.port)) under settimeout
ConnectOutcomes == {"ok", "timeout", "ConnectionRefusedError"}

\* AfterConnectInit with the exception of _connect swallowed
AfterConnectInitSwallowed(out) == "idle"

\* LocalLight.__init__ once self._connect() has ended as out: an exception leaves
\* __init__, and no object is constructed
AfterConnectInit(out) == IF out = "ok" THEN "idle" ELSE "failed"

InitNew ==
    /\ kind \in {"Local", "Remote"}
    /\ sockClosed = FALSE
    /\ peer = IF kind = "Local" THEN "unconnected" ELSE "up"
    /\ rxbuf = <<>>
    /\ inflight = <<>>
    /\ pending = <<>>
    /\ pushes = 0
    /\ status = NewStatus
    /\ pc = IF kind = "Local" THEN "new" ELSE "idle"
    /\ op = "none"
    /\ log = <<>>
    /\ result = "none"
    /\ ret = RetNone
    /\ cmdData = RetNone
    /\ readData = RetNone
    /\ parsed = <<>>
    /\ statusAtCall = NewStatus
    /\ lastOn = FALSE
    /\ lostConn = FALSE
    /\ clkData = <<>>
    /\ clkOut = [exc |-> "none", ret |-> RetNone]
    /\ rpIn = NoReply
    /\ rpOut = NoReplyOut

\* LocalLight(ipaddr): self._connect(), then self.status = Status()
Construct ==
    /\ kind = "Local" /\ pc = "new"
    /\ \E out \in ConnectOutcomes :
         /\ pc' = AfterConnectInit(out)
         /\ peer' = IF out = "ok" THEN "up" ELSE "unconnected"
         /\ result' = IF out = "ok" THEN "none" ELSE out
    /\ status' = NewStatus
    /\ UNCHANGED <<kind, sockClosed, rxbuf, inflight, pending, pushes, op, log, ret,
                   cmdData, readData, parsed, statusAtCall, lastOn,
                   lostConn, clkData, clkOut, rpIn, rpOut>>

NextNew ==
    \/ Construct
    \/ Next

SpecInit == InitNew /\ [][NextNew]_vars

-----------------------------------------------------------------------------
(* The receive-buffer flush of one LocalLight query, from its entry to its   *)
(* end, with the device pushing, closing or resetting meanwhile. The calling *)
(* thread keeps running, and select and recv return within their timeouts.   *)

\* more unread bytes than two reads of the flush take
BacklogLen == 2 * FlushChunk + 1

\* what may sit unread in the receive buffer when a query starts: nothing, a
\* pushed byte, the tail of a reply whose head a short read took, a long backlog
\* of pushed bytes
FlushBacklogs ==
    {<<>>, <<PushByte>>, [i \in 1..BacklogLen |-> PushByte]}
      \cup {Drop(f, SplitAt) : f \in Frames(QueryStatus)}
      \cup {Drop(f, SplitAt) \o <<PushByte>> : f \in Frames(QueryCurrentTime)}

\* the socket when a query starts: closed by the caller, or connected with the
\* peer up, gone after what it sent, or reset
FlushSockets ==
    {[closed |-> TRUE, peer |-> "unconnected", buf |-> <<>>],
     [closed |-> FALSE, peer |-> "reset", buf |-> <<>>]}
      \cup {[closed |-> FALSE, peer |-> p, buf |-> b] :
               p \in {"up", "closed"}, b \in FlushBacklogs}

InitFlush ==
    /\ kind = "Local"
    /\ \E k \in FlushSockets :
         /\ sockClosed = k.closed
         /\ peer = k.peer
         /\ rxbuf = k.buf
    /\ inflight = <<>>
    /\ pending = <<>>
    /\ pushes = 0
    /\ status = NewStatus
    /\ op \in {"_update_status", "get_current_time"}
    /\ pc = FirstStep(kind, SendOnly(op))
    /\ log = <<>>
    /\ result = "none"
    /\ ret = RetNone
    /\ cmdData = RetNone
    /\ readData = RetNone
    /\ parsed = <<>>
    /\ statusAtCall = NewStatus
    /\ lastOn = FALSE
    /\ lostConn = FALSE
    /\ clkData = <<>>
    /\ clkOut = [exc |-> "none", ret |-> RetNone]
    /\ rpIn = NoReply
    /\ rpOut = NoReplyOut

NextFlush ==
    \/ FlushEnter
    \/ FlushSelect
    \/ FlushRecv
    \/ DevicePush
    \/ PeerClose
    \/ PeerReset

SpecFlush ==
    /\ InitFlush /\ [][NextFlush]_vars
    /\ WF_vars(FlushEnter) /\ WF_vars(FlushSelect) /\ WF_vars(FlushRecv)

-----------------------------------------------------------------------------
(* The reply handling of the two transports as functions of the reply: the   *)
(* device's reply bytes are read by LocalLight._send_command from the socket *)
(* and handed to RemoteLight._send_command hex-encoded by the relay.         *)

\* the longest reply built from ReplyBytes
MaxHexLen == 3

ReplyBytes == {0, 10, 171, 255}

\* reply bytes: every sequence of at most MaxHexLen bytes, and for each query
\* its frames, whole, cut short and with a byte too many
ReplyBytesFor(cmd) ==
    UNION {[1..n -> ReplyBytes] : n \in 0..MaxHexLen}
      \cup Frames(cmd)
      \cup {Take(f, Len(f) - 1) : f \in Frames(cmd)}
      \cup {Take(f, SplitAt) : f \in Frames(cmd)}
      \cup {f \o <<b>> : f \in Frames(cmd), b \in ReplyBytes}

\* a query, and the reply to it: bytes, or (from the relay) no reply at all
ReplyInputs ==
    {[cmd |-> c, tag |-> "str", bytes |-> b] :
        c \in {QueryStatus, QueryCurrentTime}, b \in ReplyBytesFor(QueryStatus)}
      \cup {[cmd |-> c, tag |-> "str", bytes |-> b] :
        c \in {QueryStatus, QueryCurrentTime}, b \in ReplyBytesFor(QueryCurrentTime)}
      \cup {[cmd |-> c, tag |-> "None", bytes |-> <<>>] :
        c \in {QueryStatus, QueryCurrentTime}}

\* LocalLight._send_command, send_only=False, from data = _receive(response_len)
\* on, the device having sent the bytes b
LocalReplies(cmd, b) ==
    {IF r.exc # "ok" THEN Failed(r.exc) ELSE CheckLen(cmd, r.data) :
        r \in SockRecv(cmd.response_len, b, "up")}

InitReply ==
    /\ kind = "Remote"
    /\ sockClosed = FALSE
    /\ peer = "up"
    /\ rxbuf = <<>>
    /\ inflight = <<>>
    /\ pending = <<>>
    /\ pushes = 0
    /\ status = NewStatus
    /\ pc = "idle"
    /\ op = "none"
    /\ log = <<>>
    /\ result = "none"
    /\ ret = RetNone
    /\ cmdData = RetNone
    /\ readData = RetNone
    /\ parsed = <<>>
    /\ statusAtCall = NewStatus
    /\ lastOn = FALSE
    /\ lostConn = FALSE
    /\ clkData = <<>>
    /\ clkOut = [exc |-> "none", ret |-> RetNone]
    /\ rpIn \in ReplyInputs
    /\ rpOut = NoReplyOut

\* both transports handle the reply
ReplyApply ==
    /\ ~rpOut.done
    /\ \E l \in LocalReplies(rpIn.cmd, rpIn.bytes) :
         rpOut' = [done |-> TRUE,
                   local |-> l,
                   remote |-> RemoteQuery(rpIn.cmd, [tag |-> rpIn.tag,
                                                     s |-> HexEncode(rpIn.bytes)]),
                   decoded |-> str2hexarray(HexEncode(rpIn.bytes))]
    /\ UNCHANGED <<rpIn, kind, sockClosed, peer, rxbuf, inflight, pending, pushes,
                   status, pc, op, log, result, ret, cmdData, readData, parsed,
                   statusAtCall, lastOn, lostConn, clkData, clkOut>>

NextReply == ReplyApply

SpecReply == InitReply /\ [][NextReply]_vars

-----------------------------------------------------------------------------
(* Properties *)

IsQuery(o) == o \in Ops /\ ~SendOnly(o)

IsCommand(o) == o \in Ops /\ SendOnly(o)

SendEvent == [t |-> "send", n |-> 0]

ApiSendEvent == [t |-> "api_send", n |-> 0]

\* the positions of the log that hold an event of type t
EventsOf(t) == {i \in 1..Len(log) : log[i].t = t}

\* C1: a fire-and-forget command (turn_on, turn_off, _apply_status) makes no poll
\* and no read: on a LocalLight the socket calls of the operation are one write
\* at most, and exactly one once it has succeeded; on a RemoteLight the only call
\* is one api._send_command.
FireAndForgetNeverReads ==
    IsCommand(op) =>
        /\ EventsOf("select") = {} /\ EventsOf("recv") = {}
        /\ EventsOf("api_request") = {}
        /\ kind = "Local" => log \in {<<>>, <<SendEvent>>}
        /\ kind = "Local" /\ pc = "done" /\ result = "ok" => log = <<SendEvent>>
        /\ kind = "Remote" => log \in {<<>>, <<ApiSendEvent>>}
        /\ kind = "Remote" /\ pc = "done" => log = <<ApiSendEvent>>

\* C1 witness: turn_on succeeded on a LocalLight with unread bytes in the receive
\* buffer, having made one write and nothing else.
FireAndForgetWitness ==
    /\ kind = "Local" /\ op = "turn_on" /\ pc = "done" /\ result = "ok"
    /\ rxbuf # <<>>
    /\ log = <<SendEvent>>

\* the flush has run to completion at position i of the log: a poll that found
\* nothing readable, preceded by nothing but polls that found data, each followed
\* by its read of FlushChunk bytes
FlushCompleteAt(i) ==
    /\ i \in 1..Len(log) /\ i % 2 = 1
    /\ log[i] = [t |-> "select", n |-> 0]
    /\ \A j \in 1..(i - 1) :
         log[j] = IF j % 2 = 1 THEN [t |-> "select", n |-> 1]
                  ELSE [t |-> "recv", n |-> FlushChunk]

\* the log is a flush still under way: polls that found data, each followed by
\* its read, the last read possibly not made yet
FlushUnderWay ==
    \A j \in 1..Len(log) :
        log[j] = IF j % 2 = 1 THEN [t |-> "select", n |-> 1]
                 ELSE [t |-> "recv", n |-> FlushChunk]

\* C2: a query on a LocalLight flushes to completion, then writes the command
\* once, then issues one read of response_len bytes: the write never comes before
\* the poll that found nothing, the read never before the write.
QueryFlushWriteRead ==
    kind = "Local" /\ IsQuery(op) =>
        LET n == Len(log)
            len == CmdOf(op, status).response_len
        IN  /\ \/ FlushUnderWay
               \/ FlushCompleteAt(n)
               \/ FlushCompleteAt(n - 1) /\ log[n] = SendEvent
               \/ /\ FlushCompleteAt(n - 2) /\ log[n - 1] = SendEvent
                  /\ log[n] = [t |-> "recv", n |-> len]
            /\ pc = "send" => FlushCompleteAt(n)
            /\ pc = "recv" => FlushCompleteAt(n - 1) /\ log[n] = SendEvent
            /\ pc = "done" /\ result \in {"ok", "InvalidData", "ValueError"} =>
                  /\ FlushCompleteAt(n - 2) /\ log[n - 1] = SendEvent
                  /\ log[n] = [t |-> "recv", n |-> len]

\* C2 witness: a status refresh succeeded after a flush that had bytes to drain.
QueryOrderWitness ==
    /\ kind = "Local" /\ op = "_update_status" /\ pc = "done" /\ result = "ok"
    /\ Len(log) >= 5
    /\ log[Len(log)] = [t |-> "recv", n |-> QueryStatusLen]

\* C3: a query on a LocalLight never returns a buffer of another length than the
\* declared one: a read of fewer bytes, none included, ends in InvalidData with
\* nothing returned, parsed or decoded.
QueryNeverReturnsWrongLength ==
    kind = "Local" /\ IsQuery(op) =>
        /\ cmdData.tag = "tuple" =>
              Len(cmdData.val) = CmdOf(op, status).response_len
        /\ pc = "done" /\ readData.tag = "bytes"
              /\ Len(readData.val) # CmdOf(op, status).response_len =>
                 /\ result = "InvalidData"
                 /\ cmdData.tag = "None" /\ ret.tag = "None" /\ parsed = <<>>
        /\ ret.tag = "datetime" =>
              readData.tag = "bytes" /\ Len(readData.val) = QueryCurrentTimeLen

\* C3 witness: the clock query read some bytes, fewer than declared, and failed
\* with InvalidData.
ShortReadWitness ==
    /\ kind = "Local" /\ op = "get_current_time" /\ pc = "done"
    /\ readData.tag = "bytes"
    /\ Len(readData.val) \in 1..(QueryCurrentTimeLen - 1)
    /\ result = "InvalidData"

\* C4: once the LocalLight socket is closed, every controller operation fails with
\* DeviceDisconnected and makes no socket call at all (no send, no recv, no
\* select), and the socket stays closed until _connect is called again.
ClosedSocketFailsWithoutIO ==
    /\ [](kind = "Local" /\ sockClosed /\ pc # "idle" =>
            /\ log = <<>>
            /\ pc \in {"flush", "send", "done"}
            /\ pc = "done" => result = "DeviceDisconnected")
    /\ [][sockClosed /\ ~sockClosed' => Connect]_vars

\* C4 witness: the clock query was called on a closed socket and has failed with
\* DeviceDisconnected.
ClosedSocketWitness ==
    /\ kind = "Local" /\ sockClosed /\ op = "get_current_time" /\ pc = "done"
    /\ result = "DeviceDisconnected"

\* C5: when the send inside turn_on or turn_off raises, the on flag of the cached
\* Status is what it was before the call; on a closed LocalLight socket the call
\* fails with DeviceDisconnected.
FailedTurnOnKeepsFlag ==
    op \in {"turn_on", "turn_off"} /\ pc = "done" =>
        /\ result # "ok" => status = statusAtCall
        /\ kind = "Local" /\ sockClosed => result = "DeviceDisconnected"

\* C5 witness: turn_on on a closed socket, with the flag off, failed with
\* DeviceDisconnected.
FailedTurnOnWitness ==
    /\ kind = "Local" /\ sockClosed /\ op = "turn_on" /\ pc = "done"
    /\ result = "DeviceDisconnected"
    /\ ~statusAtCall.on

\* C6: the on flag of the cached Status is the value set by the last operation that
\* completed without error among turn_on (TRUE), turn_off (FALSE) and a status
\* refresh (the decoded value); while an operation is under way the Status is
\* still what it was at the call, and turn_on and turn_off that succeeded have
\* made one send and no read.
OnFlagIsLastSuccess ==
    /\ status.on = lastOn
    /\ pc \notin {"idle", "done"} => status = statusAtCall
    /\ op \in {"turn_on", "turn_off"} /\ pc = "done" /\ result = "ok" =>
          /\ status.on = (op = "turn_on")
          /\ log = IF kind = "Local" THEN <<SendEvent>> ELSE <<ApiSendEvent>>

\* C6 witness: turn_off succeeded on a light whose flag was on.
TurnOffWitness ==
    /\ op = "turn_off" /\ pc = "done" /\ result = "ok"
    /\ statusAtCall.on /\ ~status.on

\* C7: a status refresh that fails in the transport leaves the cached Status as it
\* was before the call, and Status.parse is never handed bytes of another length
\* than the status frame's.
FailedRefreshKeepsStatus ==
    op = "_update_status" =>
        /\ pc = "done" /\ result # "ok" => status = statusAtCall /\ parsed = <<>>
        /\ \A i \in 1..Len(parsed) : Len(parsed[i]) = QueryStatusLen

\* C7 witness: a refresh read a short reply while the flag was on and failed with
\* InvalidData.
FailedRefreshWitness ==
    /\ kind = "Local" /\ op = "_update_status" /\ pc = "done"
    /\ result = "InvalidData"
    /\ readData.tag = "bytes" /\ Len(readData.val) \in 3..(QueryStatusLen - 1)
    /\ statusAtCall.on

\* C8: get_current_time and _apply_status change no field of the cached Status,
\* whether they succeed or fail; _apply_status sends one command, built from the
\* Status.
ClockAndApplyKeepStatus ==
    op \in {"get_current_time", "_apply_status"} =>
        /\ status = statusAtCall
        /\ parsed = <<>>
        /\ op = "_apply_status" /\ kind = "Local" /\ pc = "done" /\ result = "ok"
              /\ peer = "up" /\ pending # <<>> =>
                 pending[Len(pending)] = from_array(make_data(statusAtCall))

\* C8 witness: the clock was read successfully while the cached flag was on.
ClockReadWitness ==
    /\ op = "get_current_time" /\ pc = "done" /\ result = "ok"
    /\ ret.tag = "datetime"
    /\ statusAtCall.on

\* the timestamp fields a clock reply carries at offsets 3 to 8
ClockFields(data) ==
    <<2000 + At(data, 3), At(data, 4), At(data, 5), At(data, 6), At(data, 7), At(data, 8)>>

\* the bytes at offsets 4 to 8 are a month, a day of that month, an hour, a minute
\* and a second
IsCalendarTime(data) ==
    /\ At(data, 4) \in 1..12
    /\ At(data, 5) >= 1
    /\ At(data, 5) <= (CASE At(data, 4) \in {4, 6, 9, 11} -> 30
                         [] At(data, 4) = 2 ->
                              IF At(data, 3) % 4 = 0 /\ At(data, 3) \notin {100, 200}
                              THEN 29 ELSE 28
                         [] OTHER -> 31)
    /\ At(data, 6) <= 23
    /\ At(data, 7) <= 59
    /\ At(data, 8) <= 59

\* C9 as stated: for every clock reply of the declared length get_current_time
\* returns the timestamp of year 2000 + byte 3, month byte 4, day byte 5, hour
\* byte 6, minute byte 7, second byte 8.
ClockDecodesEveryReply ==
    clkOut.exc # "none" /\ Len(clkData) = QueryCurrentTimeLen =>
        /\ clkOut.exc = "ok"
        /\ clkOut.ret = [tag |-> "datetime", val |-> ClockFields(clkData)]

\* C9 amended: for every clock reply of the declared length whose bytes 4 to 8
\* are a calendar month, day, hour, minute and second, get_current_time returns
\* the timestamp of year 2000 + byte 3 and those fields, (25, 6, 15, 13, 30, 0)
\* giving 2025-06-15 13:30:00; for any other reply it raises ValueError and
\* returns nothing.
ClockDecodesCalendarReplies ==
    clkOut.exc # "none" /\ Len(clkData) = QueryCurrentTimeLen =>
        /\ IsCalendarTime(clkData) =>
              /\ clkOut.exc = "ok"
              /\ clkOut.ret = [tag |-> "datetime", val |-> ClockFields(clkData)]
        /\ ~IsCalendarTime(clkData) =>
              clkOut.exc = "ValueError" /\ clkOut.ret = RetNone
        /\ clkData = ClockFrame(25, 6, 15, 13, 30, 0) =>
              clkOut.ret.val = <<2025, 6, 15, 13, 30, 0>>

\* C9 witness: the reply carrying (25, 6, 15, 13, 30, 0) has been decoded.
ClockDecodeWitness ==
    /\ clkData = ClockFrame(25, 6, 15, 13, 30, 0)
    /\ clkOut.exc = "ok"
    /\ clkOut.ret = [tag |-> "datetime", val |-> <<2025, 6, 15, 13, 30, 0>>]

\* the current operation failed because the connection was lost under it: the
\* socket timed out or was reset, or the reply read met the end of the stream
LostMidOperation ==
    /\ kind = "Local" /\ pc = "done" /\ result # "ok"
    /\ \/ result \in {"timeout", "ConnectionResetError"}
       \/ readData = [tag |-> "bytes", val |-> <<>>]

\* C10: when an established LocalLight connection is lost in the middle of an
\* operation, the caller gets DeviceOffline or DeviceDisconnected.
LostConnectionIsDeviceOffline ==
    LostMidOperation => result \in {"DeviceOffline", "DeviceDisconnected"}

-----------------------------------------------------------------------------

\* C11: once an operation on a LocalLight has failed because the connection was
\* lost, every later operation, until a reconnect, makes no socket call and ends
\* with DeviceDisconnected.
LostConnectionDisconnects ==
    kind = "Local" /\ lostConn /\ pc # "idle" =>
        /\ log = <<>>
        /\ pc = "done" => result = "DeviceDisconnected"

\* C12: within one operation the command is written to the transport at most
\* once (one sock.send on a LocalLight, one relay call on a RemoteLight), and the
\* calls of the operation are polls, reads and that write: no connect.
NoRetryNoReconnect ==
    /\ Cardinality(EventsOf("send")) <= 1
    /\ Cardinality(EventsOf("api_send") \cup EventsOf("api_request")) <= 1
    /\ kind = "Local" => \A i \in 1..Len(log) : log[i].t \in {"select", "recv", "send"}
    /\ kind = "Remote" => \A i \in 1..Len(log) : log[i].t \in {"api_send", "api_request"}
    /\ pc = "done" /\ log # <<>> /\ log[Len(log)].t = "send" /\ IsQuery(op) =>
          result \notin {"ok", "none"}

\* C12 witness: the one write of an operation failed (with a timeout, or because
\* the connection was reset) and the operation ended with that failure, the
\* write being its last socket call.
FailedWriteWitness ==
    /\ kind = "Local" /\ pc = "done"
    /\ result \in {"timeout", "ConnectionResetError"}
    /\ Cardinality(EventsOf("send")) = 1
    /\ log[Len(log)] = SendEvent

HexRoundTrip ==
    rpOut.done /\ rpIn.tag = "str" =>
        /\ rpOut.decoded = rpIn.bytes
        /\ Len(rpOut.decoded) = Len(rpIn.bytes)

\* C19 witness: a clock frame, whose bytes have two different hexadecimal digits,
\* has been encoded and decoded back to its twelve bytes.
HexRoundTripWitness ==
    /\ rpOut.done /\ rpIn.bytes \in Frames(QueryCurrentTime)
    /\ rpOut.decoded = rpIn.bytes
    /\ Len(rpOut.decoded) = QueryCurrentTimeLen
    /\ \E i \in 1..Len(rpIn.bytes) : rpIn.bytes[i] \div 16 # rpIn.bytes[i] % 16

FlushDrainsBuffer ==
    [][kind = "Local" /\ pc = "select" /\ pc' = "send" =>
           rxbuf = <<>> /\ rxbuf' = <<>>]_vars

\* C15 witness: a query that found unread bytes at its first poll read them in
\* the flush and has returned a reply frame of the device.
StaleBytesDrainedWitness ==
    /\ kind = "Local" /\ IsQuery(op) /\ pc = "done" /\ result = "ok"
    /\ log[1] = [t |-> "select", n |-> 1]
    /\ log[2] = [t |-> "recv", n |-> FlushChunk]
    /\ cmdData.tag = "tuple" /\ cmdData.val \in Frames(CmdOf(op, status))

\* C16: whatever the device sends while a LocalLight query is in progress, the
\* reply _send_command returns is a response frame of that query, with no pushed
\* byte in it.
QueryReplyIsDeviceFrame ==
    kind = "Local" /\ IsQuery(op) /\ cmdData.tag = "tuple" =>
        cmdData.val \in Frames(CmdOf(op, status))

\* C18: a LocalLight query whose last socket call is a read of the flush has
\* failed in the flush: it made no write and no reply read, nothing was returned,
\* and if the peer had closed the connection it failed with DeviceDisconnected.
FlushFailureStopsQuery ==
    /\ kind = "Local" /\ IsQuery(op) /\ pc = "done"
    /\ log # <<>> /\ log[Len(log)] = [t |-> "recv", n |-> FlushChunk]
    =>
        /\ result \notin {"ok", "none"}
        /\ EventsOf("send") = {}
        /\ \A i \in EventsOf("recv") : log[i].n = FlushChunk
        /\ FlushUnderWay
        /\ ret = RetNone /\ readData = RetNone /\ cmdData = RetNone
        /\ status = statusAtCall
        /\ peer = "closed" => result = "DeviceDisconnected" /\ rxbuf = <<>>

\* C18 witness: the peer closed the connection, the first poll of _update_status
\* reported the socket readable, the read was empty and the query failed with
\* DeviceDisconnected, no command written.
FlushEofWitness ==
    /\ kind = "Local" /\ op = "_update_status" /\ pc = "done"
    /\ peer = "closed" /\ result = "DeviceDisconnected"
    /\ log = <<[t |-> "select", n |-> 1], [t |-> "recv", n |-> FlushChunk]>>
    /\ pending = <<>>

\* the flush of the current query is running
InFlush == pc \in {"flush", "select", "flush_recv"}

\* C17: the flush terminates, the device sending only so much: a query in its
\* flush gets out of it, to the write or to a failure; it gets to the write only
\* from a poll that found nothing readable; and each iteration that found data
\* and goes back to the poll has taken at least one byte and at most 255 out of
\* the buffer.
FlushTerminates ==
    /\ InFlush ~> ~InFlush
    /\ [][InFlush /\ pc' = "send" => pc = "select" /\ ~Readable(rxbuf, peer)]_vars
    /\ [][pc = "flush_recv" /\ pc' = "select" =>
              /\ Len(rxbuf') < Len(rxbuf)
              /\ Len(rxbuf) - Len(rxbuf') <= FlushChunk]_vars

\* C17 witness: the flush of a query that started with a backlog of more than
\* two reads has ended at a poll that found nothing, after three reads, the
\* backlog gone.
FlushEndedWitness ==
    /\ kind = "Local" /\ IsQuery(op) /\ pc = "send"
    /\ rxbuf = <<>>
    /\ Cardinality(EventsOf("recv")) = 3
    /\ log[Len(log)] = [t |-> "select", n |-> 0]

====
